---------------------------- MODULE Spec2Model ----------------------------
(***************************************************************************)
(* A model of tinyrpc/protocols/msgpackrpc.py: the MSGPACK-RPC message     *)
(* model, its codec and the protocol facade.                               *)
(*                                                                         *)
(* Python objects are records whose field t is the type name; a plain      *)
(* value is [t |-> <type name>, v |-> <payload>].  The                     *)
(* binary format is modelled at the byte level (the fix* formats of        *)
(* MessagePack), so packing followed by unpacking is a computation and     *)
(* byte strings that do not unpack are real inputs.                        *)
(***************************************************************************)
EXTENDS Integers, Sequences, FiniteSets, TLC

VARIABLES
    op,           \* the operation that ran last
    arg,          \* the arguments it was called with
    id_counter,   \* MSGPACKRPCProtocol._id_counter
    returned,     \* what create_request has handed back so far, call by call
    request,      \* the MSGPACKRPCRequest at hand (created by the client)
    data,         \* the byte string handed to parse_request / parse_reply
    result,       \* outcome of the last facade call: a return value or a raised exception
    response,     \* outcome of the last respond / error_respond call
    error,        \* the exception instance at hand (error taxonomy)
    pc,           \* per caller: position inside create_request / _get_unique_id
    tmp,          \* per caller: the value read by "self._id_counter += 1"
    got           \* per caller: the ids of the requests it was returned

vars == <<op, arg, id_counter, returned, request, data, result, response, error, pc, tmp, got>>

-----------------------------------------------------------------------------
(* Bounds of the model.                                                    *)

MaxCalls == 4        \* create_request calls in one sequential run
MaxLen == 4          \* length of the decoded arrays handed to the parsers
NThreads == 2        \* concurrent callers sharing one facade
MaxThreadCalls == 2  \* create_request calls per concurrent caller

Threads == 1..NThreads

\* the sequences over E of length at most n
SeqsUpTo(E, n) == UNION {[1..k -> E] : k \in 0..n}

\* the proper prefixes of a byte string
Truncations(b) == {SubSeq(b, 1, k) : k \in 0..(Len(b) - 1)}

-----------------------------------------------------------------------------
(* Python values.                                                          *)

None == [t |-> "NoneType", v |-> 0]
PyInt(n) == [t |-> "int", v |-> n]
PyBool(b) == [t |-> "bool", v |-> b]
PyStr(s) == [t |-> "str", v |-> s]
PyList(s) == [t |-> "list", v |-> s]
\* a dict is the sequence of its <<key, value>> items, in insertion order
PyDict(s) == [t |-> "dict", v |-> s]

\* isinstance(x, int): bool is a subclass of int
IsInstanceInt(x) == x.t \in {"int", "bool"}
\* isinstance(x, six.string_types) / isinstance(x, str)
IsInstanceStr(x) == x.t = "str"
IsInstanceList(x) == x.t = "list"
IsNone(x) == x.t = "NoneType"

\* int(x) of an int or a bool
IntOf(x) == IF x.t = "bool" THEN (IF x.v THEN 1 ELSE 0) ELSE x.v

\* x == n for an integer literal n: True == 1 and False == 0 hold in Python
PyEqInt(x, n) == IsInstanceInt(x) /\ IntOf(x) = n

\* the characters of the strings of the model
Chars(s) ==
    CASE s = "" -> <<>>
      [] s = "m" -> <<"m">>
      [] s = "ok" -> <<"o", "k">>
      [] s = "abcd" -> <<"a", "b", "c", "d">>
      [] s \in {"a", "b", "c", "d", "o", "k"} -> <<s>>

\* code point (= UTF-8 byte, all ASCII) of a character
Ord(c) ==
    CASE c = "a" -> 97 [] c = "b" -> 98 [] c = "c" -> 99 [] c = "d" -> 100
      [] c = "k" -> 107 [] c = "m" -> 109 [] c = "o" -> 111

Strings == {"", "m", "ok", "abcd", "a", "b", "c", "d", "o", "k"}

Utf8(s) == [i \in 1..Len(Chars(s)) |-> Ord(Chars(s)[i])]

\* bool(x): the truth value Python gives x in "if x" / "not x"
Truthy(x) ==
    CASE x.t = "NoneType" -> FALSE
      [] x.t = "bool" -> x.v
      [] x.t = "int" -> x.v # 0
      [] x.t = "str" -> x.v # ""
      [] x.t \in {"list", "dict"} -> x.v # <<>>

-----------------------------------------------------------------------------
(* Outcomes of a call: a returned value or a raised exception.             *)

Return(x) == [raised |-> FALSE, value |-> x]
Raise(e) == [raised |-> TRUE, value |-> e]

\* an exception instance: its class, its args and its request_id attribute
Exc(cls, args, request_id) == [t |-> cls, args |-> args, request_id |-> request_id]

\* a Python built-in fault (TypeError, IndexError, KeyError, ...)
Fault(cls) == Exc(cls, <<>>, None)

\* len(x)
PyLen(x) ==
    CASE x.t \in {"list", "dict"} -> Return(Len(x.v))
      [] x.t = "str" -> Return(Len(Chars(x.v)))
      [] OTHER -> Raise(Fault("TypeError"))

\* x[i] for an integer literal i >= 0
PyGetItem(x, i) ==
    CASE x.t = "list" ->
            IF i < Len(x.v) THEN Return(x.v[i + 1]) ELSE Raise(Fault("IndexError"))
      [] x.t = "str" ->
            IF i < Len(Chars(x.v)) THEN Return(PyStr(Chars(x.v)[i + 1]))
            ELSE Raise(Fault("IndexError"))
      [] x.t = "dict" ->
            IF \E k \in 1..Len(x.v) : PyEqInt(x.v[k][1], i)
            THEN Return(x.v[CHOOSE k \in 1..Len(x.v) : PyEqInt(x.v[k][1], i)][2])
            ELSE Raise(Fault("KeyError"))
      [] OTHER -> Raise(Fault("TypeError"))

-----------------------------------------------------------------------------
(* msgpack.packb(x, use_bin_type=True) and msgpack.unpackb(b, raw=False)   *)
(* on the fix* formats: positive fixint 0x00-0x7f, fixmap 0x80-0x8f,       *)
(* fixarray 0x90-0x9f, fixstr 0xa0-0xbf, nil 0xc0, (never used) 0xc1,      *)
(* false 0xc2, true 0xc3, int 8 0xd0, int 16 0xd1, negative fixint         *)
(* 0xe0-0xff.                                                              *)

RECURSIVE packb(_)
RECURSIVE PackSeq(_)
RECURSIVE PackItems(_)

PackSeq(s) == IF s = <<>> THEN <<>> ELSE packb(Head(s)) \o PackSeq(Tail(s))

PackItems(s) ==
    IF s = <<>> THEN <<>>
    ELSE packb(Head(s)[1]) \o packb(Head(s)[2]) \o PackItems(Tail(s))

packb(x) ==
    CASE x.t = "NoneType" -> <<192>>
      [] x.t = "bool" -> IF x.v THEN <<195>> ELSE <<194>>
      [] x.t = "int" /\ x.v \in 0..127 -> <<x.v>>
      [] x.t = "int" /\ x.v \in (-32)..(-1) -> <<256 + x.v>>
      [] x.t = "int" /\ x.v \in (-128)..(-33) -> <<208, 256 + x.v>>
      [] x.t = "int" /\ x.v \in (-32768)..(-129) ->
            <<209, (65536 + x.v) \div 256, (65536 + x.v) % 256>>
      [] x.t = "str" /\ Len(Utf8(x.v)) <= 31 -> <<160 + Len(Utf8(x.v))>> \o Utf8(x.v)
      [] x.t = "list" /\ Len(x.v) <= 15 -> <<144 + Len(x.v)>> \o PackSeq(x.v)
      [] x.t = "dict" /\ Len(x.v) <= 15 -> <<128 + Len(x.v)>> \o PackItems(x.v)

\* result of decoding one object: ok, the value, the position after it
DecOk(x, next) == [ok |-> TRUE, val |-> x, next |-> next]
DecFail == [ok |-> FALSE, val |-> None, next |-> 0]

\* bytes that never occur in UTF-8
NeverUtf8 == {192, 193} \cup (245..255)

\* d[k] = x on the item sequence of a dict
DictSet(items, k, x) ==
    IF \E i \in 1..Len(items) : items[i][1] = k
    THEN [i \in 1..Len(items) |-> IF items[i][1] = k THEN <<k, x>> ELSE items[i]]
    ELSE Append(items, <<k, x>>)

RECURSIVE Decode(_, _)
RECURSIVE DecodeArray(_, _, _, _)
RECURSIVE DecodeMap(_, _, _, _)

\* n more elements of an array starting at position i, acc the elements so far
DecodeArray(b, i, n, acc) ==
    IF n = 0 THEN DecOk(PyList(acc), i)
    ELSE LET e == Decode(b, i) IN
         IF ~e.ok THEN DecFail
         ELSE DecodeArray(b, e.next, n - 1, Append(acc, e.val))

\* n more items of a map; strict_map_key=True: a key must be a str (or bytes)
DecodeMap(b, i, n, acc) ==
    IF n = 0 THEN DecOk(PyDict(acc), i)
    ELSE LET k == Decode(b, i) IN
         IF ~k.ok \/ k.val.t # "str" THEN DecFail
         ELSE LET x == Decode(b, k.next) IN
              IF ~x.ok THEN DecFail
              ELSE DecodeMap(b, x.next, n - 1, DictSet(acc, k.val, x.val))

Decode(b, i) ==
    IF i > Len(b) THEN DecFail
    ELSE LET c == b[i] IN
        CASE c <= 127 -> DecOk(PyInt(c), i + 1)
          [] c >= 224 -> DecOk(PyInt(c - 256), i + 1)
          [] c = 192 -> DecOk(None, i + 1)
          [] c = 193 -> DecFail
          [] c = 194 -> DecOk(PyBool(FALSE), i + 1)
          [] c = 195 -> DecOk(PyBool(TRUE), i + 1)
          [] c = 208 ->
                IF i + 1 > Len(b) THEN DecFail
                ELSE DecOk(PyInt(IF b[i + 1] >= 128 THEN b[i + 1] - 256 ELSE b[i + 1]), i + 2)
          [] c = 209 ->
                IF i + 2 > Len(b) THEN DecFail
                ELSE LET w == b[i + 1] * 256 + b[i + 2] IN
                     DecOk(PyInt(IF w >= 32768 THEN w - 65536 ELSE w), i + 3)
          [] c \in 160..191 ->
                LET n == c - 160
                    raw == SubSeq(b, i + 1, i + n)
                IN  IF i + n > Len(b) THEN DecFail
                    ELSE IF \E j \in 1..n : raw[j] \in NeverUtf8 THEN DecFail
                    ELSE DecOk(PyStr(CHOOSE s \in Strings : Utf8(s) = raw), i + 1 + n)
          [] c \in 144..159 -> DecodeArray(b, i + 1, c - 144, <<>>)
          [] c \in 128..143 -> DecodeMap(b, i + 1, c - 128, <<>>)

\* msgpack.unpackb: one object and nothing after it, else an exception
unpackb(b) ==
    LET d == Decode(b, 1) IN
    IF d.ok /\ d.next = Len(b) + 1 THEN Return(d.val)
    ELSE Raise(Fault("UnpackException"))

-----------------------------------------------------------------------------
(* Error taxonomy.                                                         *)

ErrorKinds ==
    {"MSGPACKRPCParseError", "MSGPACKRPCInvalidRequestError",
     "MSGPACKRPCMethodNotFoundError", "MSGPACKRPCInvalidParamsError",
     "MSGPACKRPCInternalError", "MSGPACKRPCServerError"}

\* the class attribute msgpackrpc_error_code
msgpackrpc_error_code(cls) ==
    CASE cls = "MSGPACKRPCParseError" -> -32700
      [] cls = "MSGPACKRPCInvalidRequestError" -> -32600
      [] cls = "MSGPACKRPCMethodNotFoundError" -> -32601
      [] cls = "MSGPACKRPCInvalidParamsError" -> -32602
      [] cls = "MSGPACKRPCInternalError" -> -32603
      [] cls = "MSGPACKRPCServerError" -> -32000

\* the class attribute message
message(cls) ==
    CASE cls = "MSGPACKRPCParseError" -> "Parse error"
      [] cls = "MSGPACKRPCInvalidRequestError" -> "Invalid request"
      [] cls = "MSGPACKRPCMethodNotFoundError" -> "Method not found"
      [] cls = "MSGPACKRPCInvalidParamsError" -> "Invalid params"
      [] cls = "MSGPACKRPCInternalError" -> "Internal error"
      [] cls = "MSGPACKRPCServerError" -> ""

\* the classes deriving from InvalidRequestError / from MethodNotFoundError
InvalidRequestErrors ==
    {"InvalidRequestError", "MSGPACKRPCParseError", "MSGPACKRPCInvalidRequestError",
     "MSGPACKRPCInvalidParamsError", "MSGPACKRPCInternalError", "MSGPACKRPCServerError"}
MethodNotFoundErrors == {"MethodNotFoundError", "MSGPACKRPCMethodNotFoundError"}

\* FixedErrorMessageMixin.__init__(*args, request_id=...)
NewError(cls, args, request_id) ==
    Exc(cls, IF args = <<>> THEN <<PyStr(message(cls))>> ELSE args, request_id)

\* str(e) of an exception with at most one (string) argument
StrOfExc(e) == IF e.args = <<>> THEN PyStr("") ELSE e.args[1]

ErrorResponse(unique_id, err, code) ==
    [t |-> "MSGPACKRPCErrorResponse", unique_id |-> unique_id, error |-> err,
     error_code |-> code]

SuccessResponse(unique_id, res) ==
    [t |-> "MSGPACKRPCSuccessResponse", unique_id |-> unique_id, result |-> res]

\* FixedErrorMessageMixin.error_respond(self)
FixedErrorMessageMixin_error_respond(e) ==
    ErrorResponse(e.request_id, PyStr(message(e.t)), PyInt(msgpackrpc_error_code(e.t)))

\* _get_code_and_message(error): error is an exception or a str
_get_code_and_message(e) ==
    IF e.t # "str"
    THEN IF e.t \in ErrorKinds
         THEN <<PyInt(msgpackrpc_error_code(e.t)), StrOfExc(e)>>
         ELSE IF e.t \in InvalidRequestErrors
         THEN <<PyInt(msgpackrpc_error_code("MSGPACKRPCInvalidRequestError")),
                PyStr(message("MSGPACKRPCInvalidRequestError"))>>
         ELSE IF e.t \in MethodNotFoundErrors
         THEN <<PyInt(msgpackrpc_error_code("MSGPACKRPCMethodNotFoundError")),
                PyStr(message("MSGPACKRPCMethodNotFoundError"))>>
         ELSE <<PyInt(msgpackrpc_error_code("MSGPACKRPCServerError")), StrOfExc(e)>>
    ELSE <<PyInt(-32000), e>>

-----------------------------------------------------------------------------
(* Message model: MSGPACKRPCRequest.                                       *)

Request(one_way, unique_id, method, args) ==
    [t |-> "MSGPACKRPCRequest", one_way |-> one_way, unique_id |-> unique_id,
     method |-> method, args |-> args]

\* MSGPACKRPCRequest.error_respond(self, error)
error_respond(self, e) ==
    IF ~Truthy(self.unique_id) THEN None
    ELSE LET cm == _get_code_and_message(e) IN
         ErrorResponse(IF self.one_way THEN None ELSE self.unique_id, cm[2], cm[1])

\* MSGPACKRPCRequest.respond(self, result)
respond(self, res) ==
    IF self.one_way \/ IsNone(self.unique_id) THEN None
    ELSE SuccessResponse(self.unique_id, res)

\* _to_list with the id and the method of a call in each other's place
_to_list_swapped(self) ==
    IF self.one_way \/ IsNone(self.unique_id)
    THEN PyList(<<PyInt(2), self.method,
                  IF ~IsNone(self.args) THEN self.args ELSE PyList(<<>>)>>)
    ELSE PyList(<<PyInt(0), self.method, self.unique_id,
                  IF ~IsNone(self.args) THEN self.args ELSE PyList(<<>>)>>)

\* MSGPACKRPCRequest._to_list(self)
_to_list(self) ==
    IF self.one_way \/ IsNone(self.unique_id)
    THEN PyList(<<PyInt(2), self.method,
                  IF ~IsNone(self.args) THEN self.args ELSE PyList(<<>>)>>)
    ELSE PyList(<<PyInt(0), self.unique_id, self.method,
                  IF ~IsNone(self.args) THEN self.args ELSE PyList(<<>>)>>)

\* MSGPACKRPCRequest.serialize(self)
serialize(self) == packb(_to_list(self))

-----------------------------------------------------------------------------
(* Protocol facade: MSGPACKRPCProtocol.                                    *)

\* _get_unique_id returning the counter as it was before the increment
_get_unique_id_stale(counter) == [counter |-> counter + 1, value |-> counter]

\* _get_unique_id on a counter value: the new counter and the returned id
_get_unique_id(counter) == [counter |-> counter + 1, value |-> counter + 1]

\* create_request(method, args, kwargs, one_way) with the counter at `counter`:
\* the outcome and the counter afterwards
create_request(counter, method, args, kwargs, one_way) ==
    IF Truthy(kwargs)
    THEN [out |-> Raise(NewError("MSGPACKRPCInvalidRequestError",
                                 <<PyStr("Does not support kwargs")>>, None)),
          counter |-> counter]
    ELSE LET id == _get_unique_id(counter)
             a == IF ~IsNone(args) THEN PyList(args.v) ELSE PyList(<<>>)
         IN  IF ~one_way
             THEN [out |-> Return(Request(one_way, PyInt(id.value), method, a)),
                   counter |-> id.counter]
             ELSE [out |-> Return(Request(one_way, None, method, a)),
                   counter |-> counter]

InvalidReplyError(msg) == Exc("InvalidReplyError", <<PyStr(msg)>>, None)

\* "or" in place of "and" in the check of line 321
BothPresent_or(err, res) == ~IsNone(err) \/ ~IsNone(res)

\* rep[2] is not None and rep[3] is not None
BothPresent(err, res) == ~IsNone(err) /\ ~IsNone(res)

\* the part of parse_reply after the checks of rep[0] and rep[1] (lines 321-343)
ParseReplyBody(rep) ==
    LET id == rep.v[2]
        err == rep.v[3]
        res == rep.v[4]
    IN  IF BothPresent(err, res)
        THEN Raise(InvalidReplyError("Reply must contain only one of result and error."))
        ELSE IF ~IsNone(err)
        THEN IF IsInstanceList(err) /\ Len(err.v) = 2
             THEN IF IsInstanceInt(err.v[1]) /\ IsInstanceStr(err.v[2])
                  THEN Return(ErrorResponse(id, err.v[2], PyInt(IntOf(err.v[1]))))
                  ELSE Return(ErrorResponse(id, err, None))
             ELSE Return(ErrorResponse(id, err, None))
        ELSE Return(SuccessResponse(id, res))

\* MSGPACKRPCProtocol.parse_reply(data)
parse_reply(b) ==
    LET u == unpackb(b) IN
    IF u.raised THEN Raise(Exc("InvalidReplyError", <<u.value>>, None))
    ELSE LET rep == u.value
             n == PyLen(rep)
             r0 == PyGetItem(rep, 0)
             r1 == PyGetItem(rep, 1)
         IN  IF n.raised THEN n
             ELSE IF n.value # 4
             THEN Raise(InvalidReplyError("MSGPACKRPC spec requires reply of length 4"))
             ELSE IF r0.raised THEN r0
             ELSE IF ~PyEqInt(r0.value, 1)
             THEN Raise(InvalidReplyError("Invalid MSGPACK message type"))
             ELSE IF r1.raised THEN r1
             ELSE IF ~IsInstanceInt(r1.value)
             THEN Raise(InvalidReplyError("Invalid or missing message ID in response"))
             ELSE ParseReplyBody(rep)

\* MSGPACKRPCProtocol._parse_notification(req)
_parse_notification(req) ==
    LET method == PyGetItem(req, 1)
        params == PyGetItem(req, 2)
    IN  IF method.raised THEN method
        ELSE IF ~IsInstanceStr(method.value)
        THEN Raise(NewError("MSGPACKRPCInvalidRequestError", <<>>, None))
        ELSE IF params.raised THEN params
        ELSE IF IsInstanceList(params.value)
        THEN Return(Request(TRUE, None, method.value, params.value))
        ELSE Raise(NewError("MSGPACKRPCInvalidParamsError", <<>>, method.value))

\* _parse_request defaulting null params to the empty list, as the encoder does
_parse_request_lenient(req) ==
    LET id == PyGetItem(req, 1)
        method == PyGetItem(req, 2)
        params == PyGetItem(req, 3)
    IN  IF method.raised THEN method
        ELSE IF ~IsInstanceStr(method.value)
        THEN Raise(NewError("MSGPACKRPCInvalidRequestError", <<>>, id.value))
        ELSE IF params.raised THEN params
        ELSE IF IsInstanceList(params.value)
        THEN Return(Request(FALSE, id.value, method.value, params.value))
        ELSE IF IsNone(params.value)
        THEN Return(Request(FALSE, id.value, method.value, PyList(<<>>)))
        ELSE Raise(NewError("MSGPACKRPCInvalidParamsError", <<>>, id.value))

\* MSGPACKRPCProtocol._parse_request(req)
_parse_request(req) ==
    LET id == PyGetItem(req, 1)
        method == PyGetItem(req, 2)
        params == PyGetItem(req, 3)
    IN  IF method.raised THEN method
        ELSE IF ~IsInstanceStr(method.value)
        THEN Raise(NewError("MSGPACKRPCInvalidRequestError", <<>>, id.value))
        ELSE IF params.raised THEN params
        ELSE IF IsInstanceList(params.value)
        THEN Return(Request(FALSE, id.value, method.value, params.value))
        ELSE Raise(NewError("MSGPACKRPCInvalidParamsError", <<>>, id.value))

\* the length check off by one: len(req) < 1
RequestTooShort_off_by_one(n) == n < 1

\* len(req) < 2: too short to hold a tag and one more element
RequestTooShort(n) == n < 2

\* MSGPACKRPCProtocol.parse_request(data)
parse_request(b) ==
    LET u == unpackb(b) IN
    IF u.raised THEN Raise(NewError("MSGPACKRPCParseError", <<>>, None))
    ELSE LET req == u.value
             n == PyLen(req)
             r0 == PyGetItem(req, 0)
             r1 == PyGetItem(req, 1)
         IN  IF ~IsInstanceList(req)
             THEN Raise(NewError("MSGPACKRPCInvalidRequestError", <<>>, None))
             ELSE IF n.raised THEN n
             ELSE IF RequestTooShort(n.value)
             THEN Raise(NewError("MSGPACKRPCInvalidRequestError", <<>>, None))
             ELSE IF r0.raised THEN r0
             ELSE IF PyEqInt(r0.value, 0)
             THEN IF r1.raised THEN r1
                  ELSE IF ~IsInstanceInt(r1.value)
                  THEN Raise(NewError("MSGPACKRPCInvalidRequestError", <<>>, None))
                  ELSE IF n.value = 4 THEN _parse_request(req)
                  ELSE Raise(NewError("MSGPACKRPCInvalidRequestError", <<>>, r1.value))
             ELSE IF PyEqInt(r0.value, 2)
             THEN IF n.value = 3 THEN _parse_notification(req)
                  ELSE Raise(NewError("MSGPACKRPCInvalidRequestError", <<>>, None))
             ELSE Raise(NewError("MSGPACKRPCInvalidRequestError", <<>>, None))


-----------------------------------------------------------------------------
(* The state before any call, shared by the specifications below.          *)

Idle ==
    /\ arg = None
    /\ id_counter = 0
    /\ returned = <<>>
    /\ request = None
    /\ result = Return(None)
    /\ response = None
    /\ error = None
    /\ pc = [t \in Threads |-> "idle"]
    /\ tmp = [t \in Threads |-> 0]
    /\ got = [t \in Threads |-> <<>>]

-----------------------------------------------------------------------------
(* Server side: one received byte string goes through parse_request; a     *)
(* parsed request is answered with respond / error_respond, a raised       *)
(* error is turned into a response by its own error_respond.               *)

\* elements of the decoded arrays a peer may send
RequestElems ==
    {PyInt(0), PyInt(1), PyInt(2), None, PyBool(FALSE), PyStr("m"),
     PyList(<<>>), PyList(<<PyInt(1), PyStr("ok")>>)}

\* decoded values a peer may send: every array up to MaxLen, values that are
\* no arrays, arrays whose params element is a map, calls with a negative id
RequestValues ==
    {PyList(s) : s \in SeqsUpTo(RequestElems, MaxLen)}
    \cup RequestElems
    \cup {PyStr("abcd"), PyDict(<<>>), PyDict(<<<<PyStr("m"), PyInt(1)>>>>),
          PyList(<<PyInt(0), PyInt(1), PyStr("m"), PyDict(<<>>)>>),
          PyList(<<PyInt(2), PyStr("m"), PyDict(<<>>)>>),
          PyList(<<PyInt(0), PyInt(-1), PyStr("m"), PyList(<<>>)>>),
          PyList(<<PyInt(0), PyInt(-1), PyStr("m"), None>>),
          PyList(<<PyInt(0), PyInt(-32601), PyStr("m"), PyList(<<>>)>>)}

\* byte strings that do not unpack: empty and truncated input, the unused
\* byte 0xc1, trailing bytes, invalid UTF-8, a map with an integer key
Garbage ==
    {<<193>>, <<161, 255>>, <<129, 1, 2>>, <<148, 0, 1, 161, 109, 144, 0>>}
    \cup Truncations(<<148, 0, 1, 161, 109, 144>>)

RequestInputs == {packb(x) : x \in RequestValues} \cup Garbage

\* results handed to respond, errors handed to error_respond
Results == {None, PyStr("ok"), PyList(<<PyInt(1)>>)}
Errors ==
    {PyStr("ok"), Exc("ValueError", <<PyStr("m")>>, None),
     NewError("MSGPACKRPCMethodNotFoundError", <<>>, None)}

ServerInit ==
    /\ op = "receive"
    /\ data \in RequestInputs
    /\ Idle

ParseRequest ==
    /\ op = "receive"
    /\ result' = parse_request(data)
    /\ op' = "parse_request"
    /\ UNCHANGED <<arg, id_counter, returned, request, data, response, error, pc, tmp, got>>

\* request.respond(x) on the request parse_request returned
Respond(x) ==
    /\ op = "parse_request"
    /\ ~result.raised
    /\ response' = respond(result.value, x)
    /\ arg' = x
    /\ op' = "respond"
    /\ UNCHANGED <<id_counter, returned, request, data, result, error, pc, tmp, got>>

\* request.error_respond(e) on the request parse_request returned
ErrorRespond(e) ==
    /\ op = "parse_request"
    /\ ~result.raised
    /\ response' = error_respond(result.value, e)
    /\ arg' = e
    /\ op' = "error_respond"
    /\ UNCHANGED <<id_counter, returned, request, data, result, error, pc, tmp, got>>

\* e.error_respond() on the error parse_request raised
RaisedErrorRespond ==
    /\ op = "parse_request"
    /\ result.raised
    /\ result.value.t \in ErrorKinds
    /\ response' = FixedErrorMessageMixin_error_respond(result.value)
    /\ op' = "raised_error_respond"
    /\ UNCHANGED <<arg, id_counter, returned, request, data, result, error, pc, tmp, got>>

ServerNext ==
    \/ ParseRequest
    \/ \E x \in Results : Respond(x)
    \/ \E e \in Errors : ErrorRespond(e)
    \/ RaisedErrorRespond

SpecServer == ServerInit /\ [][ServerNext]_vars

-----------------------------------------------------------------------------
(* Client side, replies: one received byte string goes through parse_reply. *)

ReplyElems ==
    {PyInt(1), PyInt(0), PyInt(7), None, PyBool(TRUE), PyStr("ok"),
     PyList(<<PyInt(-32601), PyStr("m")>>), PyList(<<PyStr("m"), PyInt(1)>>),
     PyList(<<PyInt(1)>>)}

ReplyValues ==
    {PyList(s) : s \in SeqsUpTo(ReplyElems, MaxLen)}
    \cup ReplyElems
    \cup {PyStr("abcd"), PyDict(<<>>),
          PyDict(<<<<PyStr("a"), PyInt(1)>>, <<PyStr("b"), PyInt(7)>>,
                   <<PyStr("c"), None>>, <<PyStr("d"), PyStr("ok")>>>>),
          PyList(<<PyInt(1), PyInt(7), PyDict(<<>>), None>>),
          PyList(<<PyInt(1), PyInt(7), PyList(<<PyInt(1), PyStr("m"), None>>), None>>),
          PyList(<<PyInt(1), PyInt(7), PyList(<<PyBool(TRUE), PyStr("m")>>), None>>)}

ReplyInputs == {packb(x) : x \in ReplyValues} \cup Garbage

ReplyInit ==
    /\ op = "receive"
    /\ data \in ReplyInputs
    /\ Idle

ParseReply ==
    /\ op = "receive"
    /\ result' = parse_reply(data)
    /\ op' = "parse_reply"
    /\ UNCHANGED <<arg, id_counter, returned, request, data, response, error, pc, tmp, got>>

ReplyNext == ParseReply

SpecReply == ReplyInit /\ [][ReplyNext]_vars

-----------------------------------------------------------------------------
(* Client side, requests: one caller uses the facade sequentially.  A      *)
(* created request is serialized and the bytes are parsed by the peer.     *)

Methods == {PyStr("m"), PyStr("")}
ArgLists ==
    {None, PyList(<<>>), PyList(<<PyInt(1), PyStr("ok")>>),
     PyList(<<PyList(<<None, PyBool(TRUE)>>), PyInt(-1)>>)}
KwArgs == {None, PyDict(<<>>), PyDict(<<<<PyStr("k"), PyInt(1)>>>>)}

\* what the caller keeps of a create_request call: how it ended and the id
Handed(out) ==
    IF out.raised THEN [kind |-> "rejected", unique_id |-> None]
    ELSE [kind |-> IF out.value.one_way THEN "notification" ELSE "call",
          unique_id |-> out.value.unique_id]

ClientInit ==
    /\ op = "init"
    /\ data = <<>>
    /\ Idle

CreateRequest(method, args, kwargs, one_way) ==
    LET c == create_request(id_counter, method, args, kwargs, one_way) IN
    /\ Len(returned) < MaxCalls
    /\ id_counter' = c.counter
    /\ result' = c.out
    /\ request' = IF c.out.raised THEN None ELSE c.out.value
    /\ returned' = Append(returned, Handed(c.out))
    /\ arg' = [method |-> method, args |-> args, kwargs |-> kwargs, one_way |-> one_way]
    /\ op' = "create_request"
    /\ UNCHANGED <<data, response, error, pc, tmp, got>>

\* request.serialize() on the request create_request returned
Serialize ==
    /\ op = "create_request"
    /\ ~result.raised
    /\ data' = serialize(request)
    /\ op' = "serialize"
    /\ UNCHANGED <<arg, id_counter, returned, request, result, response, error, pc, tmp, got>>

\* parse_request on the serialized bytes
ParseSerialized ==
    /\ op = "serialize"
    /\ result' = parse_request(data)
    /\ op' = "parse_request"
    /\ UNCHANGED <<arg, id_counter, returned, request, data, response, error, pc, tmp, got>>

ClientNext ==
    \/ \E method \in Methods, args \in ArgLists, one_way \in BOOLEAN :
          CreateRequest(method, args, None, one_way)
    \/ \E kwargs \in KwArgs : CreateRequest(PyStr("m"), None, kwargs, FALSE)
    \/ Serialize
    \/ ParseSerialized

SpecClient == ClientInit /\ [][ClientNext]_vars

-----------------------------------------------------------------------------
(* Concurrent callers on one facade: create_request(one_way=False) runs    *)
(* "self._id_counter += 1" as a read and a write, then reads the counter   *)
(* again for the returned value; callers interleave between these steps.   *)

ConcInit ==
    /\ op = "init"
    /\ data = <<>>
    /\ Idle

\* the read of "self._id_counter += 1"
LoadCounter(t) ==
    /\ pc[t] = "idle"
    /\ Len(got[t]) < MaxThreadCalls
    /\ tmp' = [tmp EXCEPT ![t] = id_counter]
    /\ pc' = [pc EXCEPT ![t] = "store"]
    /\ UNCHANGED <<op, arg, id_counter, returned, request, data, result, response, error, got>>

\* the write of "self._id_counter += 1"
StoreCounter(t) ==
    /\ pc[t] = "store"
    /\ id_counter' = tmp[t] + 1
    /\ pc' = [pc EXCEPT ![t] = "return"]
    /\ UNCHANGED <<op, arg, returned, request, data, result, response, error, tmp, got>>

\* "return self._id_counter"; the request is returned with that id
ReturnId(t) ==
    /\ pc[t] = "return"
    /\ got' = [got EXCEPT ![t] = Append(@, PyInt(id_counter))]
    /\ pc' = [pc EXCEPT ![t] = "idle"]
    /\ UNCHANGED <<op, arg, id_counter, returned, request, data, result, response, error, tmp>>

ConcNext == \E t \in Threads : LoadCounter(t) \/ StoreCounter(t) \/ ReturnId(t)

SpecConc == ConcInit /\ [][ConcNext]_vars

-----------------------------------------------------------------------------
(* Error taxonomy: an error of one of the kinds is constructed, with or    *)
(* without an explicit message, and converted to a response, by its own    *)
(* error_respond() or by the error_respond(error) of a call request.       *)

Messages == {PyStr("m"), PyStr("ok"), PyStr("")}
RequestIds == {None, PyInt(1), PyInt(7)}
CallRequests ==
    {Request(FALSE, PyInt(1), PyStr("m"), PyList(<<>>)),
     Request(FALSE, PyInt(7), PyStr("m"), PyList(<<PyInt(1)>>))}

ErrorInit ==
    /\ op = "init"
    /\ data = <<>>
    /\ Idle

\* cls(*args, request_id=request_id)
Construct(cls, args, request_id) ==
    /\ op = "init"
    /\ error' = NewError(cls, args, request_id)
    /\ arg' = [cls |-> cls, args |-> args, request_id |-> request_id]
    /\ op' = "construct"
    /\ UNCHANGED <<id_counter, returned, request, data, result, response, pc, tmp, got>>

\* error.error_respond()
OwnErrorRespond ==
    /\ op = "construct"
    /\ response' = FixedErrorMessageMixin_error_respond(error)
    /\ op' = "own_error_respond"
    /\ UNCHANGED <<arg, id_counter, returned, request, data, result, error, pc, tmp, got>>

\* req.error_respond(error)
RequestErrorRespond(req) ==
    /\ op = "construct"
    /\ request' = req
    /\ response' = error_respond(req, error)
    /\ op' = "error_respond"
    /\ UNCHANGED <<arg, id_counter, returned, data, result, error, pc, tmp, got>>

ErrorNext ==
    \/ \E cls \in ErrorKinds, request_id \in RequestIds :
          \/ Construct(cls, <<>>, request_id)
          \/ \E m \in Messages : Construct(cls, <<m>>, request_id)
    \/ OwnErrorRespond
    \/ \E req \in CallRequests : RequestErrorRespond(req)

SpecError == ErrorInit /\ [][ErrorNext]_vars

-----------------------------------------------------------------------------
(* Properties.                                                             *)

\* the decoded message, where the received bytes unpack
Unpacks == ~unpackb(data).raised
Msg == unpackb(data).value

TypedErrorCode(cls) ==
    CASE cls = "MSGPACKRPCParseError" -> -32700
      [] cls = "MSGPACKRPCInvalidRequestError" -> -32600
      [] cls = "MSGPACKRPCInvalidParamsError" -> -32602

\* C2 (SpecServer): parse_request is total over its typed errors.  It
\* returns a Request or raises ParseError (-32700), InvalidRequest (-32600)
\* or InvalidParams (-32602), nothing else; bytes that do not unpack raise
\* ParseError.
C2_ParseRequestTotal ==
    /\ op # "receive" =>
          /\ IF result.raised
             THEN result.value.t \in
                    {"MSGPACKRPCParseError", "MSGPACKRPCInvalidRequestError",
                     "MSGPACKRPCInvalidParamsError"}
             ELSE result.value.t = "MSGPACKRPCRequest"
          /\ ~Unpacks => result.raised /\ result.value.t = "MSGPACKRPCParseError"
    /\ op = "raised_error_respond" =>
          response.error_code = PyInt(TypedErrorCode(result.value.t))

C2_Witness ==
    /\ op = "raised_error_respond"
    /\ ~Unpacks
    /\ data # <<>>
    /\ result.value.t = "MSGPACKRPCParseError"
    /\ response.error_code = PyInt(-32700)

\* C3 (SpecReply): parse_reply is total over InvalidReply.  It returns a
\* response or raises InvalidReplyError, nothing else, and a decoded value
\* that is not a 4-element list raises InvalidReplyError.
C3_ParseReplyTotal ==
    op = "parse_reply" =>
        /\ IF result.raised
           THEN result.value.t = "InvalidReplyError"
           ELSE result.value.t \in
                  {"MSGPACKRPCSuccessResponse", "MSGPACKRPCErrorResponse"}
        /\ (Unpacks /\ ~(IsInstanceList(Msg) /\ Len(Msg.v) = 4)) =>
              result.raised /\ result.value.t = "InvalidReplyError"

\* the number of calls among the first i create_request calls
CallsUpTo(i) == Cardinality({j \in 1..i : returned[j].kind = "call"})

\* C4 (SpecClient): sequential id allocation.  The k-th request returned
\* with one_way false has unique_id k, a one-way request has unique_id
\* None, and the counter counts the calls only (one-way and rejected
\* create_request calls leave it alone).
C4_SequentialIds ==
    /\ \A i \in 1..Len(returned) :
          /\ returned[i].kind = "call" => returned[i].unique_id = PyInt(CallsUpTo(i))
          /\ returned[i].kind # "call" => IsNone(returned[i].unique_id)
    /\ id_counter = CallsUpTo(Len(returned))

C4_Witness ==
    /\ Len(returned) = 4
    /\ returned[1].kind = "call"
    /\ returned[2].kind = "notification"
    /\ returned[3].kind = "rejected"
    /\ returned[4].kind = "call"
    /\ returned[4].unique_id = PyInt(2)

\* C5 (SpecConc): with concurrent callers on one facade, no two returned
\* requests carry the same unique_id.
C5_UniqueIds ==
    \A t1 \in Threads, t2 \in Threads :
        \A i \in 1..Len(got[t1]), j \in 1..Len(got[t2]) :
            (t1 # t2 \/ i # j) => got[t1][i] # got[t2][j]

\* C6 (SpecServer): a request is answered exactly when it is a call.  On a
\* notification respond and error_respond return None; on a call with id i
\* respond(x) returns a SuccessResponse with unique_id i and result x, and
\* error_respond(e) returns an ErrorResponse with unique_id i.
C6_AnsweredIffCall ==
    /\ op = "respond" =>
          IF result.value.one_way THEN IsNone(response)
          ELSE response = SuccessResponse(result.value.unique_id, arg)
    /\ op = "error_respond" =>
          IF result.value.one_way THEN IsNone(response)
          ELSE /\ response.t = "MSGPACKRPCErrorResponse"
               /\ response.unique_id = result.value.unique_id

\* a tag-0 message of length 4 with integer id and string method
IsCallShape ==
    /\ Unpacks /\ IsInstanceList(Msg) /\ Len(Msg.v) = 4
    /\ PyEqInt(Msg.v[1], 0) /\ IsInstanceInt(Msg.v[2]) /\ IsInstanceStr(Msg.v[3])

\* a tag-2 message of length 3 with string method
IsNotificationShape ==
    /\ Unpacks /\ IsInstanceList(Msg) /\ Len(Msg.v) = 3
    /\ PyEqInt(Msg.v[1], 2) /\ IsInstanceStr(Msg.v[2])

\* the params element: the last one
Params == Msg.v[Len(Msg.v)]

Raised(cls) == result.raised /\ result.value.t = cls

\* C7 as stated (SpecServer): null params raise InvalidParams, params that
\* are non-null and no list raise InvalidRequest, a list becomes the args.
C7_ParamsRuleAsStated ==
    (op # "receive" /\ (IsCallShape \/ IsNotificationShape)) =>
        IF IsNone(Params) THEN Raised("MSGPACKRPCInvalidParamsError")
        ELSE IF ~IsInstanceList(Params) THEN Raised("MSGPACKRPCInvalidRequestError")
        ELSE ~result.raised /\ result.value.args = Params

\* C7 (SpecServer), amended: strict params rule on decode.  For a tag-0
\* message of length 4 with integer id and string method, and for a tag-2
\* message of length 3 with string method, parse_request raises
\* InvalidParams (-32602) whenever the params element is not a list, null or
\* not, and returns a Request whose args equal the params element when it is
\* a list; params are never defaulted to empty.
C7_ParamsRule ==
    /\ (op # "receive" /\ (IsCallShape \/ IsNotificationShape)) =>
          IF ~IsInstanceList(Params) THEN Raised("MSGPACKRPCInvalidParamsError")
          ELSE ~result.raised /\ result.value.args = Params
    /\ (op = "raised_error_respond" /\ (IsCallShape \/ IsNotificationShape)) =>
          response.error_code = PyInt(-32602)

C7_Witness ==
    /\ op = "raised_error_respond"
    /\ IsCallShape
    /\ ~IsNone(Params)
    /\ ~IsInstanceList(Params)
    /\ Raised("MSGPACKRPCInvalidParamsError")
    /\ response.error_code = PyInt(-32602)

KnownId ==
    IF /\ Unpacks /\ IsInstanceList(Msg) /\ Len(Msg.v) >= 2
       /\ PyEqInt(Msg.v[1], 0) /\ IsInstanceInt(Msg.v[2])
    THEN Msg.v[2]
    ELSE None

\* C9 (SpecServer): correlation id of parse errors.  An error raised by
\* parse_request carries the message's id when the tag is 0 and element 1
\* is an int, and None in every other case (every rejected notification
\* included), and its own error_respond() gives a response with that
\* unique_id.
C9_ErrorRequestId ==
    /\ (op # "receive" /\ result.raised) => result.value.request_id = KnownId
    /\ op = "raised_error_respond" => response.unique_id = KnownId

\* C10 (SpecError): an explicit message survives conversion to a response.
\* Both error.error_respond() and request.error_respond(error) give the
\* kind's code and, as error text, the explicit message when one was given
\* and the kind's default message otherwise.
C10_MessageSurvives ==
    LET m == IF arg.args = <<>> THEN PyStr(message(arg.cls)) ELSE arg.args[1] IN
    /\ op = "own_error_respond" =>
          /\ response.error_code = PyInt(msgpackrpc_error_code(arg.cls))
          /\ response.error = m
    /\ op = "error_respond" =>
          /\ response.t = "MSGPACKRPCErrorResponse"
          /\ response.error_code = PyInt(msgpackrpc_error_code(arg.cls))
          /\ response.error = m

=============================================================================
